---- MODULE Spec2Model ----
(***************************************************************************)
(* Pyramid-Tracker: the per-platform batch orchestrators                   *)
(* (platforms/*/service.py) and the multi-platform dispatcher (main.py).   *)
(*                                                                         *)
(* One action is one await-to-await step of a coroutine: asyncio runs the  *)
(* platform tasks cooperatively, so a task can only be interleaved with    *)
(* another at a network call or at a sleep.                                *)
(***************************************************************************)
EXTENDS Integers, Sequences, FiniteSets, TLC

\* ---------------------------------------------------------------- bounds
NumParticipants == 2      \* length of the participant list of one dispatch
MaxPlatforms == 2         \* most platforms dispatched together
MaxRating == 1            \* ratings a platform can report: 0..MaxRating
RecursionLimit == 3       \* nested get_participant_data frames the interpreter
                          \* allows before it raises RecursionError (scaled down)

\* ------------------------------------------------------------- constants
PlatformOrder == <<"CodeChef", "Codeforces", "GeeksforGeeks", "HackerRank", "LeetCode">>
Platforms == {PlatformOrder[k] : k \in 1..Len(PlatformOrder)}
Batches == {2025, 2026}
Participants == 1..NumParticipants
Ratings == 0..MaxRating
\* "" stands for an empty or None handle, "a@b" for a handle holding an "@"
Handles == {"", "#n/a", "a@b", "h"}
\* what the platform answers to one request of a client
Answers == {"ok", "notfound", "ratelimit", "error"}

VARIABLES
  platform_list,        \* the platforms of this dispatch
  participants,         \* the shared in-memory Participant objects
  before,               \* their platform statuses when the dispatch began
  db,                   \* the participants collection of the document store
  contests_config,      \* batch -> does the configuration list contest URLs
  is_cache_initialized, \* platform -> client.is_cache_initialized
  task,                 \* platform -> the state of its process_batch coroutine
  dispatch,             \* the state of process_results / close_services
  now,                  \* time.time(), in ticks
  client,               \* the fields of one BasePlatformClient instance
  call,                 \* caller -> the state of its request() call on client
  grants,               \* the last two slots _rate_limit granted on client
  datetime_now,         \* datetime.now(), in hours
  store,                \* the leaderboard_cache collection of the document store
  memory,               \* the cache fields of one leaderboard client instance
  init_call,            \* the state of that client's initialize_cache call
  read,                 \* what the last direct read of the repository returned
  lookup,               \* what the last lookup by handle returned
  codechef,             \* the token fields of one CodeChefClient and its clock
  calc,                 \* the arguments and the value of the last rating computed
  gfg,                  \* one GeeksForGeeksClient and the coroutines that initialize it
  leetcode              \* the response cache of one LeetCodeClient and its last call

orch_vars == <<platform_list, participants, before, db, contests_config,
               is_cache_initialized, task, dispatch>>

client_vars == <<now, client, call, grants>>

cache_vars == <<datetime_now, store, memory, init_call, read, lookup>>

\* what the steps of the orchestrators and of the dispatcher leave alone
extra_vars == <<codechef, calc, gfg, leetcode>>

other_vars == <<client_vars, cache_vars, extra_vars>>

vars == <<orch_vars, other_vars>>

\* ------------------------------------------------------------ data model
PlatformStatus(h, ex, r) == [handle |-> h, exists |-> ex, rating |-> r, fresh |-> TRUE]

\* a status as loaded from the store: last_updated lies before this run
StoredStatus(h, ex) ==
  [handle |-> h, exists |-> ex, rating |-> IF ex THEN {0} ELSE {}, fresh |-> FALSE]

StoredStatuses ==
  {StoredStatus(h, FALSE) : h \in Handles} \cup {StoredStatus("h", TRUE)}

handle_of(i, p) == participants[i].platforms[p].handle

Count(x, s) == Cardinality({k \in 1..Len(s) : s[k] = x})

RECURSIVE SeqOfSet(_)
SeqOfSet(S) ==
  IF S = {} THEN <<>>
  ELSE LET m == CHOOSE x \in S : \A y \in S : x <= y
       IN <<m>> \o SeqOfSet(S \ {m})

\* ------------------------------------------------------- platform clients
\* `if not username` / `username == "#n/a"` at the top of get_participant_data
InvalidHandle(p, h) ==
  IF p = "CodeChef" THEN h = "" ELSE h \in {"", "#n/a"}

\* the client answers without issuing a request
ClientSkipsRequest(p, h) ==
  p \in {"Codeforces", "HackerRank"} /\ h = "a@b"

\* what the client call hands to the service for the platform's answer a
ClientResult(p, a) ==
  CASE p = "Codeforces" -> IF a = "ok" THEN "data" ELSE "none"
    [] p = "HackerRank" ->
         CASE a = "ok" -> "true"
           [] a = "notfound" -> "false"
           [] a = "ratelimit" -> "RateLimitError"
           [] OTHER -> "ScraperError"
    [] OTHER ->
         CASE a = "ok" -> "data"
           [] a = "notfound" -> "UserNotFoundError"
           [] a = "ratelimit" -> "RateLimitError"
           [] OTHER -> "ScraperError"

\* the answers a call for handle h can get ("norequest": no request is made)
AnswersFor(p, h) == IF ClientSkipsRequest(p, h) THEN {"norequest"} ELSE Answers

ResultFor(p, a) ==
  IF a = "norequest"
  THEN (IF p = "HackerRank" THEN "false" ELSE "none")
  ELSE ClientResult(p, a)

\* ---------------------------------------------------- get_participant_data
Return(st) == [kind |-> "return", status |-> st, exc |-> "none"]
RaiseExc(e) == [kind |-> "raise", status |-> PlatformStatus("", FALSE, {}), exc |-> e]
SleepAndRetry == [kind |-> "retry", status |-> PlatformStatus("", FALSE, {}), exc |-> "none"]
GoOn == [kind |-> "scores", status |-> PlatformStatus("", FALSE, {}), exc |-> "none"]

\* a get_participant_data that lets user-not-found leave as an exception
\* instead of returning an exists=false status
get_participant_data_raising(p, h, res, r, configured) ==
  CASE res \in {"none", "UserNotFoundError", "false"} -> RaiseExc("UserNotFoundError")
    [] res = "data" -> Return(PlatformStatus(h, TRUE, {r}))
    [] res = "true" ->
         IF configured THEN GoOn ELSE Return(PlatformStatus(h, TRUE, {0}))
    [] res = "RateLimitError" -> SleepAndRetry
    [] OTHER -> RaiseExc(res)

\* what get_participant_data does with the result res of its client call;
\* r is the rating the fetched data holds, configured whether the batch of the
\* participant has contest URLs (HackerRank only)
get_participant_data(p, h, res, r, configured) ==
  CASE res = "data" -> Return(PlatformStatus(h, TRUE, {r}))
    [] res = "none" -> Return(PlatformStatus(h, FALSE, {}))
    [] res = "UserNotFoundError" -> Return(PlatformStatus(h, FALSE, {}))
    [] res = "false" -> Return(PlatformStatus(h, FALSE, {}))
    [] res = "true" ->
         IF configured THEN GoOn ELSE Return(PlatformStatus(h, TRUE, {0}))
    [] res = "RateLimitError" -> SleepAndRetry
    [] OTHER -> RaiseExc(res)

\* ------------------------------------------------------------ task state
HR == "HackerRank"

NewTask(active) ==
  [pc |-> IF active THEN "pending" ELSE "absent",
   todo |-> <<>>,        \* participants the individual loop still has to take
   cur |-> 0,            \* the participant get_participant_data works on
   attempts |-> 0,       \* client fetches made for cur
   depth |-> 0,          \* nested get_participant_data frames
   phase |-> "first",    \* "retry": inside process_batch's except RateLimitError
   cooldowns |-> 0,      \* 60 s sleeps made for cur
   last |-> "none",      \* the platform's last answer for cur
   rating |-> 0,         \* the rating of that answer when it is "ok"
   prior |-> 0,          \* occurrences of cur in results when cur was taken
   results |-> <<>>,
   exc |-> "none",       \* the exception process_batch ended with
   contacted |-> {},     \* participants a request was issued for
   all429 |-> TRUE,      \* every answer so far was HTTP 429
   grp |-> 0,            \* HackerRank: index of the college/batch group
   gtodo |-> <<>>,       \* HackerRank: members the group loop still has to take
   origin |-> "try",     \* HackerRank: where the individual loop was entered
   rl_member |-> 0]      \* HackerRank: member whose group verification got 429

ParticipantList == SeqOfSet(Participants)

\* HackerRank's college_batch_groups: keys in order of first appearance
FirstOfGroup ==
  SelectSeq(ParticipantList,
            LAMBDA i : \A j \in 1..(i - 1) : participants[j].batch # participants[i].batch)

GroupKey(g) == participants[FirstOfGroup[g]].batch

Members(g) ==
  SelectSeq(ParticipantList, LAMBDA i : participants[i].batch = GroupKey(g))

\* a process_batch that appends the participant once per attempt made
AppendedPerAttempt(t, i) ==
  [t EXCEPT !.results = @ \o [k \in 1..(IF t.attempts > 1 THEN t.attempts ELSE 1) |-> i]]

Appended(t, i) == [t EXCEPT !.results = Append(@, i)]
Skipped(t) == [t EXCEPT !.pc = "loop", !.todo = Tail(@)]
Raised(t, e) == [t EXCEPT !.pc = "raised", !.exc = e]
Answered(t, a, r) ==
  [t EXCEPT !.last = a, !.rating = r, !.all429 = @ /\ a = "ratelimit"]

\* an exception no handler of the individual loop names: it leaves
\* process_batch, except that HackerRank's `except Exception` around the group
\* takes it once and processes the whole group individually
Escapes(p, t, e) ==
  IF p = HR /\ t.origin = "try"
  THEN [t EXCEPT !.pc = "loop", !.todo = Members(t.grp), !.origin = "except"]
  ELSE Raised(t, e)

\* the except clauses around `result = await self.get_participant_data(...)`
\* in process_batch (HackerRank: in _process_single_participant)
process_batch_except(p, t, e) ==
  IF t.phase = "first"
  THEN CASE e = "RateLimitError" ->
              [t EXCEPT !.pc = "cool", !.phase = "retry", !.depth = 0,
                        !.cooldowns = @ + 1]
         [] e \in {"ScraperError", "UserNotFoundError"} ->
              IF p \in {"GeeksforGeeks", "HackerRank", "LeetCode"}
              THEN Skipped(t) ELSE Raised(t, e)
         [] OTHER -> Escapes(p, t, e)
  ELSE CASE e \in {"RateLimitError", "ScraperError", "UserNotFoundError"} -> Skipped(t)
         [] OTHER -> Escapes(p, t, e)

\* an event loop on which a pending network call or sleep of one task keeps
\* every other task from running (a blocking call)
RunningBlocking(p) ==
  /\ dispatch.pc = "gather" /\ p \in platform_list
  /\ \A q \in platform_list \ {p} : task[q].pc \notin {"fetch", "cool"}

Running(p) == dispatch.pc = "gather" /\ p \in platform_list

SetTask(p, t) == task' = [task EXCEPT ![p] = t]

StoreForAll(i, p, st) ==
  participants' = [participants EXCEPT ![i].platforms = [q \in Platforms |-> st]]

\* `participant.platforms[Platform.X.value] = result` in process_batch of X
Store(i, p, st) == participants' = [participants EXCEPT ![i].platforms[p] = st]

\* what process_batch does with the outcome of get_participant_data
Apply(p, t, i, out) ==
  CASE out.kind = "return" ->
         /\ SetTask(p, Skipped(Appended(t, i)))
         /\ Store(i, p, out.status)
    [] out.kind = "retry" ->
         /\ SetTask(p, [t EXCEPT !.pc = "cool", !.cooldowns = @ + 1])
         /\ UNCHANGED participants
    [] out.kind = "scores" ->
         /\ SetTask(p, [t EXCEPT !.pc = "fetch2"])
         /\ UNCHANGED participants
    [] OTHER ->
         /\ SetTask(p, process_batch_except(p, t, out.exc))
         /\ UNCHANGED participants

\* ----------------------------------------------------------- process_batch
StartTask(p) ==
  /\ Running(p)
  /\ task[p].pc = "pending"
  /\ SetTask(p, CASE p = "GeeksforGeeks" /\ ~is_cache_initialized[p] ->
                       [task[p] EXCEPT !.pc = "init"]
                  [] p = HR -> [task[p] EXCEPT !.pc = "groups", !.grp = 1]
                  [] OTHER -> [task[p] EXCEPT !.pc = "loop", !.todo = ParticipantList])
  /\ UNCHANGED <<platform_list, participants, before, db, contests_config,
                 is_cache_initialized, dispatch>>
  /\ UNCHANGED other_vars

\* GeeksForGeeks: `await self.client.initialize_cache()` before the loop
InitializeCache(p) ==
  /\ Running(p)
  /\ task[p].pc = "init"
  /\ \E o \in {"ok", "RateLimitError", "ScraperError"} :
       IF o = "ok"
       THEN /\ is_cache_initialized' = [is_cache_initialized EXCEPT ![p] = TRUE]
            /\ SetTask(p, [task[p] EXCEPT !.pc = "loop", !.todo = ParticipantList,
                                          !.all429 = FALSE])
       ELSE /\ SetTask(p, Raised([task[p] EXCEPT !.all429 = @ /\ o = "RateLimitError"], o))
            /\ UNCHANGED is_cache_initialized
  /\ UNCHANGED <<platform_list, participants, before, db, contests_config, dispatch>>
  /\ UNCHANGED other_vars

\* the loop takes the next participant and calls get_participant_data
BeginParticipant(p) ==
  /\ Running(p)
  /\ task[p].pc = "loop"
  /\ task[p].todo # <<>>
  /\ LET i == Head(task[p].todo)
         h == handle_of(i, p)
         t == [task[p] EXCEPT !.cur = i, !.attempts = 0, !.depth = 0,
                              !.phase = "first", !.cooldowns = 0, !.last = "none",
                              !.rating = 0, !.prior = Count(i, task[p].results)]
     IN IF InvalidHandle(p, h)
        THEN /\ SetTask(p, Skipped(Appended(t, i)))
             /\ Store(i, p, PlatformStatus(h, FALSE, {}))
        ELSE /\ SetTask(p, [t EXCEPT !.pc = "fetch", !.attempts = 1, !.depth = 1,
                                     !.contacted = IF ClientSkipsRequest(p, h)
                                                   THEN @ ELSE @ \cup {i}])
             /\ UNCHANGED participants
  /\ UNCHANGED <<platform_list, before, db, contests_config, is_cache_initialized,
                 dispatch>>
  /\ UNCHANGED other_vars

\* the client call of get_participant_data resolves
ClientResponds(p) ==
  /\ Running(p)
  /\ task[p].pc = "fetch"
  /\ LET i == task[p].cur
         h == handle_of(i, p)
     IN \E a \in AnswersFor(p, h), r \in Ratings :
          /\ (a # "ok" \/ p = HR) => r = 0
          /\ Apply(p, Answered(task[p], a, r), i,
                   get_participant_data(p, h, ResultFor(p, a), r,
                                        contests_config[participants[i].batch]))
  /\ UNCHANGED <<platform_list, before, db, contests_config, is_cache_initialized,
                 dispatch>>
  /\ UNCHANGED other_vars

\* the interpreter refuses one more nested frame: RecursionError, raised in the
\* service's own frames or inside the client call; GeeksForGeeks' get_user_data
\* turns every exception but the two it names into a ScraperError
RecursionOutcomes(p) ==
  IF p = "GeeksforGeeks" THEN {"RecursionError", "ScraperError"} ELSE {"RecursionError"}

\* `await asyncio.sleep(60)` ends and _retry_get_participant_data calls
\* get_participant_data again, one frame deeper
CoolDownEnds(p) ==
  /\ Running(p)
  /\ task[p].pc = "cool"
  /\ IF task[p].depth >= RecursionLimit
     THEN \E e \in RecursionOutcomes(p) :
            SetTask(p, process_batch_except(p, task[p], e))
     ELSE SetTask(p, [task[p] EXCEPT !.pc = "fetch", !.attempts = @ + 1,
                                     !.depth = @ + 1])
  /\ UNCHANGED <<platform_list, participants, before, db, contests_config,
                 is_cache_initialized, dispatch>>
  /\ UNCHANGED other_vars

\* the individual loop is exhausted
EndLoop(p) ==
  /\ Running(p)
  /\ task[p].pc = "loop"
  /\ task[p].todo = <<>>
  /\ SetTask(p, IF p = HR
                THEN [task[p] EXCEPT !.pc = "groups", !.grp = @ + 1]
                ELSE [task[p] EXCEPT !.pc = "returned"])
  /\ UNCHANGED <<platform_list, participants, before, db, contests_config,
                 is_cache_initialized, dispatch>>
  /\ UNCHANGED other_vars

\* ------------------------------------------------ HackerRank process_batch
\* get_user_scores raises only while it still has to initialize the cache
ScoresAnswers == IF is_cache_initialized[HR] THEN {"ok"} ELSE {"ok", "ratelimit", "error"}

ScoresResult(a) ==
  CASE a = "ok" -> "data"
    [] a = "ratelimit" -> "RateLimitError"
    [] OTHER -> "ScraperError"

\* get_participant_data: `scores = await self.client.get_user_scores(...)` resolves
ScoresRespond ==
  /\ Running(HR)
  /\ task[HR].pc = "fetch2"
  /\ LET i == task[HR].cur
         h == handle_of(i, HR)
     IN \E a \in ScoresAnswers, r \in Ratings :
          /\ a # "ok" => r = 0
          /\ is_cache_initialized' =
               [is_cache_initialized EXCEPT ![HR] = @ \/ a = "ok"]
          /\ Apply(HR, Answered(task[HR], a, r), i,
                   get_participant_data(HR, h, ScoresResult(a), r, TRUE))
  /\ UNCHANGED <<platform_list, before, db, contests_config, dispatch>>
  /\ UNCHANGED other_vars

ValidHandles(ms) ==
  {handle_of(ms[k], HR) : k \in 1..Len(ms)} \ {"", "#n/a"}

\* the `for key, group_participants in college_batch_groups.items()` loop
NextGroup ==
  /\ Running(HR)
  /\ task[HR].pc = "groups"
  /\ LET t == task[HR]
         g == t.grp
     IN IF g > Len(FirstOfGroup)
        THEN SetTask(HR, [t EXCEPT !.pc = "returned"])
        ELSE IF ~contests_config[GroupKey(g)]
        THEN SetTask(HR, [t EXCEPT !.pc = "loop", !.todo = Members(g),
                                   !.origin = "try", !.rl_member = 0])
        ELSE IF ValidHandles(Members(g)) = {}
        THEN SetTask(HR, [t EXCEPT !.grp = @ + 1])
        ELSE SetTask(HR, [t EXCEPT !.pc = "scores", !.rl_member = 0])
  /\ UNCHANGED <<platform_list, participants, before, db, contests_config,
                 is_cache_initialized, dispatch>>
  /\ UNCHANGED other_vars

\* `scores = await self.client.get_user_scores(handles, contest_urls)` resolves
GroupScoresRespond ==
  /\ Running(HR)
  /\ task[HR].pc = "scores"
  /\ LET t == task[HR]
         ms == Members(t.grp)
     IN \E a \in (IF ValidHandles(ms) = {"a@b"} THEN {"ok"} ELSE ScoresAnswers) :
          LET t1 == [t EXCEPT !.all429 = @ /\ a = "ratelimit"]
          IN /\ is_cache_initialized' =
                  [is_cache_initialized EXCEPT
                     ![HR] = @ \/ (a = "ok" /\ ValidHandles(ms) # {"a@b"})]
             /\ SetTask(HR,
                  CASE a = "ok" -> [t1 EXCEPT !.pc = "gloop", !.gtodo = ms]
                    [] a = "ratelimit" -> [t1 EXCEPT !.pc = "gcool"]
                    [] OTHER -> [t1 EXCEPT !.pc = "loop", !.todo = ms,
                                           !.origin = "except"])
  /\ UNCHANGED <<platform_list, participants, before, db, contests_config, dispatch>>
  /\ UNCHANGED other_vars

\* the status the group loop builds from the verification and the score
group_status(h, profile_exists, score) ==
  PlatformStatus(h, profile_exists, {IF profile_exists THEN score ELSE 0})

\* `for participant in group_participants` after the scores arrived
GroupLoop ==
  /\ Running(HR)
  /\ task[HR].pc = "gloop"
  /\ LET t == task[HR]
     IN IF t.gtodo = <<>>
        THEN /\ SetTask(HR, [t EXCEPT !.pc = "groups", !.grp = @ + 1])
             /\ UNCHANGED participants
        ELSE LET i == Head(t.gtodo)
                 h == handle_of(i, HR)
                 rest == [t EXCEPT !.gtodo = Tail(@)]
             IN IF h \in {"", "#n/a"}
                THEN /\ SetTask(HR, rest)
                     /\ UNCHANGED participants
                ELSE IF participants[i].platforms[HR].exists
                THEN \E score \in Ratings :
                       /\ SetTask(HR, Appended(rest, i))
                       /\ Store(i, HR, group_status(h, TRUE, score))
                ELSE IF ClientSkipsRequest(HR, h)
                THEN /\ SetTask(HR, Appended(rest, i))
                     /\ Store(i, HR, group_status(h, FALSE, 0))
                ELSE /\ SetTask(HR, [t EXCEPT !.pc = "gverify",
                                              !.contacted = @ \cup {i}])
                     /\ UNCHANGED participants
  /\ UNCHANGED <<platform_list, before, db, contests_config, is_cache_initialized,
                 dispatch>>
  /\ UNCHANGED other_vars

\* `profile_exists = await self.client.verify_user_profile(handle)` resolves
GroupVerifyRespond ==
  /\ Running(HR)
  /\ task[HR].pc = "gverify"
  /\ LET t == task[HR]
         i == Head(t.gtodo)
         h == handle_of(i, HR)
         ms == Members(t.grp)
     IN \E a \in Answers, score \in Ratings :
          LET res == ClientResult(HR, a)
              t1 == [t EXCEPT !.all429 = @ /\ a = "ratelimit"]
          IN /\ res # "true" => score = 0
             /\ CASE res \in {"true", "false"} ->
                       /\ SetTask(HR, Appended([t1 EXCEPT !.pc = "gloop",
                                                         !.gtodo = Tail(@)], i))
                       /\ Store(i, HR, group_status(h, res = "true", score))
                  [] res = "RateLimitError" ->
                       /\ SetTask(HR, [t1 EXCEPT !.pc = "gcool", !.rl_member = i])
                       /\ UNCHANGED participants
                  [] OTHER ->
                       /\ SetTask(HR, [t1 EXCEPT !.pc = "loop", !.todo = ms,
                                                 !.origin = "except"])
                       /\ UNCHANGED participants
  /\ UNCHANGED <<platform_list, before, db, contests_config, is_cache_initialized,
                 dispatch>>
  /\ UNCHANGED other_vars

\* `except RateLimitError: await asyncio.sleep(60)` of the group ends
GroupCoolDownEnds ==
  /\ Running(HR)
  /\ task[HR].pc = "gcool"
  /\ SetTask(HR, [task[HR] EXCEPT !.pc = "loop", !.todo = Members(task[HR].grp),
                                  !.origin = "try"])
  /\ UNCHANGED <<platform_list, participants, before, db, contests_config,
                 is_cache_initialized, dispatch>>
  /\ UNCHANGED other_vars

\* ------------------------------------------------------------- dispatcher
\* tasks.keys(): the dispatched platforms in the order of the Platform enum
Tasks == SelectSeq(PlatformOrder, LAMBDA p : p \in platform_list)

\* gather without return_exceptions: the first exception leaves gather at once
return_exceptions_off == FALSE

\* asyncio.gather(*tasks.values(), return_exceptions=True)
return_exceptions == TRUE

\* gather hands its results to process_results
Gather ==
  /\ dispatch.pc = "gather"
  /\ IF return_exceptions
     THEN /\ \A p \in platform_list : task[p].pc \in {"returned", "raised"}
          /\ dispatch' = [dispatch EXCEPT !.pc = "results"]
     ELSE \/ /\ \E p \in platform_list : task[p].pc = "raised"
             /\ dispatch' = [dispatch EXCEPT !.pc = "failed"]
          \/ /\ \A p \in platform_list : task[p].pc = "returned"
             /\ dispatch' = [dispatch EXCEPT !.pc = "results"]
  /\ UNCHANGED <<platform_list, participants, before, db, contests_config,
                 is_cache_initialized, task>>
  /\ UNCHANGED other_vars

\* repo.update_participants(result) writing the first k documents: every
\* document holds all the platforms of the in-memory participant
update_participants(result, k) ==
  [i \in Participants |->
     IF \E j \in 1..k : result[j] = i THEN participants[i].platforms ELSE db[i]]

\* one turn of `for platform, result in zip(tasks.keys(), results)`
ProcessResult ==
  /\ dispatch.pc = "results"
  /\ dispatch.pos <= Len(Tasks)
  /\ LET p == Tasks[dispatch.pos]
     IN IF task[p].pc = "raised"
        THEN /\ dispatch' = [dispatch EXCEPT !.pos = @ + 1]
             /\ UNCHANGED db
        ELSE \E k \in 0..Len(task[p].results) :
               /\ db' = update_participants(task[p].results, k)
               /\ dispatch' =
                    IF k = Len(task[p].results)
                    THEN [dispatch EXCEPT !.pos = @ + 1,
                                          !.persisted = @ \cup {p}]
                    ELSE [dispatch EXCEPT !.pc = "failed", !.storage_error = TRUE]
  /\ UNCHANGED <<platform_list, participants, before, contests_config,
                 is_cache_initialized, task>>
  /\ UNCHANGED other_vars

\* the commands that dispatch the platforms
Commands == {"multi_scrape", "run_pipeline"}

\* process_results returns and close_services is awaited; in _multi_scrape it
\* is awaited in a `finally`, so also when process_results has raised.
\* close_services closes the service of every dispatched platform
CloseServices ==
  /\ \/ dispatch.pc = "results" /\ dispatch.pos > Len(Tasks)
     \/ dispatch.pc = "failed" /\ dispatch.command = "multi_scrape"
  /\ dispatch' = [dispatch EXCEPT !.pc = "closed",
                                  !.closed = platform_list,
                                  !.raised = (dispatch.pc = "failed")]
  /\ UNCHANGED <<platform_list, participants, before, db, contests_config,
                 is_cache_initialized, task>>
  /\ UNCHANGED other_vars

\* _run_pipeline: process_results has raised inside the `try` of step 1, and
\* `except Exception` logs the error and returns
PipelineExcept ==
  /\ dispatch.pc = "failed" /\ dispatch.command = "run_pipeline"
  /\ dispatch' = [dispatch EXCEPT !.pc = "returned"]
  /\ UNCHANGED <<platform_list, participants, before, db, contests_config,
                 is_cache_initialized, task>>
  /\ UNCHANGED other_vars

\* ----------------------------------------------- BasePlatformClient.request
TicksPerSecond == 2       \* resolution of the clock
MaxTime == 22             \* the clock stops here
NumCallers == 2           \* coroutines that use the one client instance
MaxCalls == 1             \* request() calls one of them makes

Callers == 1..NumCallers

\* rate_limit as the clients' constructors pass it
ConstructorRates == {1, 2}

\* the keyword arguments of a request() call; rate 0 stands for None
CallProfiles ==
  {[rate |-> 0, by_minute |-> FALSE, bypass |-> FALSE],
   [rate |-> 30, by_minute |-> TRUE, bypass |-> FALSE],
   [rate |-> 0, by_minute |-> FALSE, bypass |-> TRUE]}

\* what one HTTP attempt ends with: a status, or a transport failure
Responses == {"200", "429", "500", "ClientError"}

\* 1.0 / effective_rate_limit and 300.0 / effective_rate_limit, in ticks
interval(rate) == TicksPerSecond \div rate
interval_by_minute(rate) == (300 * TicksPerSecond) \div rate

\* a retry predicate that takes every exception of request()
retry_if_any_exception(e) == e \in {"ClientError", "RateLimitError", "ScraperError"}

\* retry=retry_if_exception_type(ClientError)
retry_if_exception_type(e) == e = "ClientError"

stop_after_attempt == 3

\* the sum of f over the set S
RECURSIVE SumOver(_, _)
SumOver(f, S) ==
  IF S = {} THEN 0
  ELSE LET x == CHOOSE y \in S : TRUE IN f[x] + SumOver(f, S \ {x})

Max(a, b) == IF a >= b THEN a ELSE b
Min(a, b) == IF a <= b THEN a ELSE b

\* wait_exponential(multiplier=1, min=4, max=10) after the given attempt
wait_exponential(attempt) ==
  TicksPerSecond * Max(4, Min(2 ^ (attempt - 1), 10))

IdleCall(made) ==
  [pc |-> "idle", profile |-> CHOOSE x \in CallProfiles : ~x.by_minute /\ ~x.bypass,
   attempt |-> 0, responses |-> <<>>, backoffs |-> 0, need |-> 0, seen_last |-> 0,
   wake |-> 0, exc |-> "none", made |-> made]

Granted(g, need) ==
  [count |-> Min(g.count + 1, 2), prev |-> g.last, last |-> now, need |-> need]

\* the overrides request() writes into the instance
Overridden(cl, prof) ==
  [cl EXCEPT !.rate_limit = IF prof.rate # 0 THEN prof.rate ELSE @,
             !.rate_limit_by_minute = @ \/ prof.by_minute,
             !.bypass_rate_limit = @ \/ prof.bypass]

BypassIgnored(cl, prof) == FALSE

\* the governor is passed over: `if not bypass_rate_limit` of request(), or
\* `if self.bypass_rate_limit: return` of _rate_limit and _rate_limit_by_minute
Bypassed(cl, prof) == prof.bypass \/ cl.bypass_rate_limit

\* one run of the body of request() for caller c, up to its first await:
\* the overrides, then _rate_limit or _rate_limit_by_minute
Attempt(c, k) ==
  LET prof == k.profile
      cl == Overridden(client, prof)
      need == IF prof.by_minute THEN interval_by_minute(cl.rate_limit)
              ELSE interval(cl.rate_limit)
      since == now - cl.last_request_time
  IN IF Bypassed(cl, prof)
     THEN /\ client' = cl
          /\ call' = [call EXCEPT ![c] = [k EXCEPT !.pc = "http"]]
          /\ UNCHANGED grants
     ELSE IF since < need
     THEN /\ client' = cl
          /\ call' = [call EXCEPT ![c] = [k EXCEPT !.pc = "sleeping", !.need = need,
                                                   !.seen_last = cl.last_request_time,
                                                   !.wake = now + (need - since)]]
          /\ UNCHANGED grants
     ELSE /\ client' = [cl EXCEPT !.last_request_time = now]
          /\ call' = [call EXCEPT ![c] = [k EXCEPT !.pc = "http", !.need = need]]
          /\ grants' = Granted(grants, need)

\* a coroutine calls self.request(...)
Request(c) ==
  /\ call[c].pc = "idle"
  /\ call[c].made < MaxCalls
  /\ \E prof \in CallProfiles :
       Attempt(c, [IdleCall(call[c].made + 1) EXCEPT !.profile = prof, !.attempt = 1])
  /\ UNCHANGED <<now, orch_vars, cache_vars, extra_vars>>

\* `await asyncio.sleep(sleep_time)` of the governor ends:
\* self.last_request_time = time.time()
SlotGranted(c) ==
  /\ call[c].pc = "sleeping"
  /\ now >= call[c].wake
  /\ client' = [client EXCEPT !.last_request_time = now]
  /\ call' = [call EXCEPT ![c] = [@ EXCEPT !.pc = "http", !.wake = 0, !.seen_last = 0]]
  /\ grants' = Granted(grants, call[c].need)
  /\ UNCHANGED <<now, orch_vars, cache_vars, extra_vars>>

\* the exception the except clause of request() makes of a response
Classified(r) ==
  CASE r = "429" -> "RateLimitError"
    [] r = "500" -> "ScraperError"
    [] OTHER -> r

\* tenacity after an attempt that raised e
AfterAttempt(k, e) ==
  IF ~retry_if_exception_type(e) THEN [k EXCEPT !.pc = "raised", !.exc = e]
  ELSE IF k.attempt >= stop_after_attempt
  THEN [k EXCEPT !.pc = "raised", !.exc = "RetryError"]
  ELSE [k EXCEPT !.pc = "backoff", !.backoffs = @ + 1,
                 !.wake = now + wait_exponential(k.attempt)]

\* the HTTP attempt of caller c ends
HttpResponds(c) ==
  /\ call[c].pc = "http"
  /\ \E r \in Responses :
       LET k == [call[c] EXCEPT !.responses = Append(@, r)]
       IN call' = [call EXCEPT ![c] = IF r = "200" THEN [k EXCEPT !.pc = "returned"]
                                      ELSE AfterAttempt(k, Classified(r))]
  /\ UNCHANGED <<now, client, grants, orch_vars, cache_vars, extra_vars>>

\* the wait of tenacity ends: the body of request() runs again
BackoffEnds(c) ==
  /\ call[c].pc = "backoff"
  /\ now >= call[c].wake
  /\ Attempt(c, [call[c] EXCEPT !.attempt = @ + 1, !.wake = 0])
  /\ UNCHANGED <<now, orch_vars, cache_vars, extra_vars>>

\* the caller takes the response or the exception
CallEnds(c) ==
  /\ call[c].pc \in {"returned", "raised"}
  /\ call' = [call EXCEPT ![c] = IdleCall(call[c].made)]
  /\ UNCHANGED <<now, client, grants, orch_vars, cache_vars, extra_vars>>

\* time passes while a coroutine waits for a timer, and a sleep that is over
\* ends before the clock moves on; the network exchanges and the callers' own
\* work take no time on this clock, which is the closest the requests can get
Tick ==
  /\ now < MaxTime
  /\ \E c \in Callers : call[c].pc \in {"sleeping", "backoff"}
  /\ \A c \in Callers : call[c].pc \in {"sleeping", "backoff"} => now < call[c].wake
  /\ now' = now + 1
  /\ UNCHANGED <<client, call, grants, orch_vars, cache_vars, extra_vars>>

\* BasePlatformClient.__init__
ClientInitFor(rate) ==
  /\ now = 0
  /\ client = [rate_limit |-> rate, rate_limit_by_minute |-> FALSE,
               bypass_rate_limit |-> FALSE,
               last_request_time |-> 0 - interval_by_minute(1)]
  /\ call = [c \in Callers |-> IdleCall(0)]
  /\ grants = [count |-> 0, prev |-> 0, last |-> 0, need |-> 0]

\* ------------------------------------------ LeaderboardCacheRepository
HoursPerDay == 24         \* the clock of the cache counts hours
CACHE_MAX_AGE_DAYS == 1
MaxPages == 2             \* max_pages of GeeksForGeeks, the contests of HackerRank
MaxRows == 1              \* rows of one leaderboard page
StartHour == 25           \* datetime.now() when the client is constructed
MaxHour == 26             \* the clock of the cache stops here
MaxInitCalls == 2         \* initialize_cache calls made on the one client

GFG == "GeeksforGeeks"
CachePlatforms == {GFG, HR}

\* the cache ids: str(page) for GeeksForGeeks, the contest id for HackerRank
Units == 0..(MaxPages - 1)

\* the rows of a leaderboard: user_handle and user_score for GeeksForGeeks,
\* hacker and score for HackerRank
CacheHandles == {"A", "b"}
UserScores == {0, 1}
Rows == [user_handle : CacheHandles, user_score : UserScores]
EntryLists == UNION {[1..n -> Rows] : n \in 1..MaxRows}

\* str.lower()
lower(h) == IF h = "A" THEN "a" ELSE h

\* last_updated of the documents an earlier run left in the store:
\* 25 hours, 23 hours and 1 hour before the client is constructed
StoredTimes == {StartHour - 25, StartHour - 23, StartHour - 1}

LeaderboardCache(platform, id, es, t) ==
  [platform |-> platform, cache_id |-> id, entries |-> es, last_updated |-> t]

_cache_entry_to_document(e) ==
  [platform |-> e.platform, cacheId |-> e.cache_id, entries |-> e.entries,
   lastUpdated |-> e.last_updated]

_document_to_cache_entry(doc) ==
  LeaderboardCache(doc.platform, doc.cacheId, doc.entries, doc.lastUpdated)

Documents ==
  {_cache_entry_to_document(LeaderboardCache(platform, u, es, t)) :
     platform \in CachePlatforms, u \in Units, es \in EntryLists, t \in StoredTimes}

\* timedelta.days: whole days, rounded down
days(age) == age \div HoursPerDay

is_cache_stale_strict(cache_entry) ==
  datetime_now - cache_entry.last_updated > CACHE_MAX_AGE_DAYS * HoursPerDay

is_cache_stale(cache_entry) ==
  days(datetime_now - cache_entry.last_updated) >= CACHE_MAX_AGE_DAYS

\* collection.find_one: a set that is empty when no document matches
find_one(platform, id) ==
  {doc \in store : doc.platform = platform /\ doc.cacheId = id}

\* a set that is empty when the method returns None
get_cache_entry(platform, cache_id, check_freshness) ==
  {e \in {_document_to_cache_entry(doc) : doc \in find_one(platform, cache_id)} :
     ~(check_freshness /\ is_cache_stale(e))}

get_platform_cache_entries(platform, only_fresh) ==
  LET max_age_date == datetime_now - CACHE_MAX_AGE_DAYS * HoursPerDay
      cursor == {doc \in store : /\ doc.platform = platform
                                 /\ only_fresh => doc.lastUpdated >= max_age_date}
  IN {e \in {_document_to_cache_entry(doc) : doc \in cursor} :
        ~only_fresh \/ ~is_cache_stale(e)}

save_cache_entries_by_id(st, cache_entries) ==
  {doc \in st : \A e \in cache_entries : e.cache_id # doc.cacheId}
    \cup {_cache_entry_to_document(e) : e \in cache_entries}

\* bulk_write of upserts keyed by platform and cacheId
save_cache_entries(st, cache_entries) ==
  {doc \in st : \A e \in cache_entries :
                  e.platform # doc.platform \/ e.cache_id # doc.cacheId}
    \cup {_cache_entry_to_document(e) : e \in cache_entries}

\* read and lookup hold what the call that has just returned gave its caller
NoRead == [op |-> "none", fresh |-> FALSE, found |-> {}, result |-> {}]
NoLookup ==
  [handle |-> "", failing |-> {}, result |-> <<>>, handles |-> {}, contest_urls |-> {}]

\* a call of get_cache_entry; found is what the collection held for the query
\* without the time filter.  pymongo may fail, and then the method raises
\* DatabaseError.
GetCacheEntry ==
  \E cache_id \in Units, check_freshness \in BOOLEAN, ok \in BOOLEAN :
    /\ read' = [op |-> IF ok THEN "get_cache_entry" ELSE "DatabaseError",
                fresh |-> check_freshness,
                found |-> find_one(memory.platform, cache_id),
                result |-> IF ok THEN get_cache_entry(memory.platform, cache_id, check_freshness)
                           ELSE {}]
    /\ lookup' = NoLookup
    /\ UNCHANGED <<datetime_now, store, memory, init_call, orch_vars, client_vars, extra_vars>>

GetPlatformCacheEntries ==
  \E only_fresh \in BOOLEAN, ok \in BOOLEAN :
    /\ read' = [op |-> IF ok THEN "get_platform_cache_entries" ELSE "DatabaseError",
                fresh |-> only_fresh,
                found |-> {doc \in store : doc.platform = memory.platform},
                result |-> IF ok THEN get_platform_cache_entries(memory.platform, only_fresh)
                           ELSE {}]
    /\ lookup' = NoLookup
    /\ UNCHANGED <<datetime_now, store, memory, init_call, orch_vars, client_vars, extra_vars>>

\* save_cache_entries as the client of either platform calls it on the one
\* collection, in this run or another, with an entry it has just fetched
\* (of the other platform: the leaderboards of cache id 0 it is served);
\* found is the collection before the call, result what was handed over
SaveCacheEntries ==
  \E platform \in CachePlatforms, cache_id \in Units, es \in EntryLists :
    LET cache_entries == {LeaderboardCache(platform, cache_id, es, datetime_now)}
    IN /\ platform # memory.platform => (cache_id = 0 /\ es \in [1..1 -> {r \in Rows : r.user_handle = "b"}])
       /\ store' = save_cache_entries(store, cache_entries)
       /\ read' = [op |-> "save_cache_entries", fresh |-> FALSE,
                   found |-> store, result |-> cache_entries]
       /\ lookup' = NoLookup
    /\ UNCHANGED <<datetime_now, memory, init_call, orch_vars, client_vars, extra_vars>>

\* an hour passes
HourPasses ==
  /\ datetime_now < MaxHour
  /\ datetime_now' = datetime_now + 1
  /\ read' = NoRead /\ lookup' = NoLookup
  /\ UNCHANGED <<store, memory, init_call, orch_vars, client_vars, extra_vars>>

\* ----------------------------------------- the leaderboard cache of a client
\* GeeksForGeeksClient and HackerRankClient keep the same three fields; the
\* dicts are functions whose domain is the set of keys
NewMemory(platform) ==
  [platform |-> platform, leaderboard_cache |-> <<>>, user_cache |-> <<>>,
   is_cache_initialized |-> FALSE]

\* user_cache[handle][contest_id] = entry, for the rows of one leaderboard in
\* their order
RECURSIVE IndexByHandle(_, _, _, _)
IndexByHandle(user_cache, contest_id, entries, k) ==
  IF k > Len(entries) THEN user_cache
  ELSE LET user_handle == lower(entries[k].user_handle)
       IN IndexByHandle(IF user_handle # ""
                          THEN (<<user_handle, contest_id>> :> entries[k]) @@ user_cache
                          ELSE user_cache,
                        contest_id, entries, k + 1)

\* leaderboard_cache[contest_id] = entries, and the index
Remember(mem, contest_id, entries) ==
  [mem EXCEPT !.leaderboard_cache = (contest_id :> entries) @@ @,
              !.user_cache = IndexByHandle(@, contest_id, entries, 1)]

\* the loop over db_cache_entries; HackerRank leaves alone a contest that is
\* in leaderboard_cache already
RECURSIVE LoadFromDatabase(_, _, _)
LoadFromDatabase(mem, db_cache_entries, u) ==
  IF u >= MaxPages THEN mem
  ELSE LET here == {e \in db_cache_entries : e.cache_id = u}
           skip == here = {} \/ (mem.platform = HR /\ u \in DOMAIN mem.leaderboard_cache)
       IN LoadFromDatabase(IF skip THEN mem
                           ELSE Remember(mem, u, (CHOOSE e \in here : TRUE).entries),
                           db_cache_entries, u + 1)

\* the first row of the handle in a list of rows: a set that is empty when the
\* loop ends without a match
RECURSIVE FirstRowOf(_, _, _)
FirstRowOf(handle, entries, k) ==
  IF k > Len(entries) THEN {}
  ELSE IF lower(entries[k].user_handle) = handle THEN {entries[k]}
  ELSE FirstRowOf(handle, entries, k + 1)

\* get_weekly_contest_scores returns the rows, get_user_scores_from_cache
\* their scores
Returned(platform, row) == IF platform = GFG THEN row ELSE row.user_score

lookup_in_memory(h, failing) ==
  LET handle == lower(h)
      contest_ids == {u \in Units : <<handle, u>> \in DOMAIN memory.user_cache}
  IN [u \in contest_ids |-> Returned(memory.platform, memory.user_cache[<<handle, u>>])]

\* the lookup of both clients after their guards; failing are the contests
\* whose get_cache_entry raises
lookup_by_handle(h, failing) ==
  LET handle == lower(h)
      contest_ids == {u \in Units : <<handle, u>> \in DOMAIN memory.user_cache}
      cache_entry(u) == IF u \in failing THEN {}
                        ELSE get_cache_entry(memory.platform, u, TRUE)
      user_entry(u) ==
        UNION {FirstRowOf(handle, e.entries, 1) : e \in cache_entry(u)}
      kept == {u \in contest_ids : cache_entry(u) = {} \/ user_entry(u) # {}}
  IN [u \in kept |->
        Returned(memory.platform,
                 IF cache_entry(u) = {} THEN memory.user_cache[<<handle, u>>]
                 ELSE CHOOSE row \in user_entry(u) : TRUE)]

\* get_weekly_contest_scores from line 300 on, which runs once the cache is
\* initialized, and get_user_scores_from_cache, which returns {} until then
Lookup ==
  \E handle \in CacheHandles, failing \in SUBSET Units :
    /\ memory.platform = GFG => memory.is_cache_initialized
    /\ \A u \in failing : <<lower(handle), u>> \in DOMAIN memory.user_cache
    /\ lookup' = [NoLookup EXCEPT
                    !.handle = handle, !.failing = failing,
                    !.result = IF memory.is_cache_initialized
                                 THEN lookup_by_handle(handle, failing) ELSE <<>>]
    /\ read' = NoRead
    /\ UNCHANGED <<datetime_now, store, memory, init_call, orch_vars, client_vars, extra_vars>>

\* the scores of the rows of the handles in a list of rows, added up per
\* handle as get_contest_leaderboard adds them; no key for a handle without
\* a row
RECURSIVE ScoresIn(_, _, _, _)
ScoresIn(results, handles, entries, k) ==
  IF k > Len(entries) THEN results
  ELSE LET hacker_handle == lower(entries[k].user_handle)
           current_score == IF hacker_handle \in DOMAIN results
                              THEN results[hacker_handle] ELSE 0
       IN ScoresIn(IF hacker_handle \in handles
                     THEN (hacker_handle :> current_score + entries[k].user_score) @@ results
                     ELSE results,
                   handles, entries, k + 1)

\* get_contest_leaderboard for a contest that leaderboard_cache holds, on an
\* initialized cache: the rows of the fresh persisted entry, or those in memory
get_contest_leaderboard(contest_id, handles) ==
  LET cache_entry == get_cache_entry(HR, contest_id, TRUE)
      entries == IF cache_entry # {} THEN (CHOOSE e \in cache_entry : TRUE).entries
                 ELSE memory.leaderboard_cache[contest_id]
  IN ScoresIn(<<>>, handles, entries, 1)

\* get_user_scores from `total_scores = ...` on: the sums of the cached
\* scores, returned when every one of them is positive, and otherwise the
\* loop over contest_urls that adds each contest's scores to them
get_user_scores(handles_set, contest_urls) ==
  LET cached_scores(handle) == lookup_by_handle(handle, {})
      total_scores == [handle \in handles_set |->
                         SumOver(cached_scores(handle), DOMAIN cached_scores(handle))]
      contest_scores(u) == get_contest_leaderboard(u, handles_set)
      added(handle) == SumOver([u \in contest_urls |-> contest_scores(u)[handle]],
                               {u \in contest_urls : handle \in DOMAIN contest_scores(u)})
  IN IF \A handle \in handles_set : total_scores[handle] > 0 THEN total_scores
     ELSE [handle \in handles_set |-> total_scores[handle] + added(handle)]

\* HackerRankClient.get_user_scores on an initialized cache that holds every
\* contest of contest_urls, so that the call makes no request
GetUserScores ==
  \E handles \in SUBSET CacheHandles, contest_urls \in SUBSET Units :
    /\ memory.platform = HR
    /\ memory.is_cache_initialized
    /\ handles # {} /\ contest_urls # {}
    /\ contest_urls \subseteq DOMAIN memory.leaderboard_cache
    /\ lookup' = [NoLookup EXCEPT
                    !.handles = handles, !.contest_urls = contest_urls,
                    !.result = get_user_scores({lower(h) : h \in handles}, contest_urls)]
    /\ read' = NoRead
    /\ UNCHANGED <<datetime_now, store, memory, init_call, orch_vars, client_vars, extra_vars>>

\* ------------------------------------------------------- initialize_cache
\* entries a progress save waits for: len(db_cache_entries_to_save) >= 10 in
\* GeeksForGeeksClient, and half as many, >= 5, in HackerRankClient; scaled
\* down to what the pages of one call can reach
SaveEveryPages == 2
SaveEvery(platform) ==
  IF platform = GFG THEN SaveEveryPages ELSE (SaveEveryPages + 1) \div 2

NoCall ==
  [pc |-> "idle", calls |-> 0, force_refresh |-> FALSE, scope |-> {},
   was_initialized |-> FALSE, fresh |-> {}, to_fetch |-> {}, processed |-> {},
   page |-> 0, all_entries |-> <<>>, db_cache_entries_to_save |-> {},
   found_zero |-> FALSE, reads |-> 0, writes |-> 0, requested |-> {},
   requests |-> 0, before |-> <<>>, asked |-> {}, exc |-> "none",
   save_errors |-> 0]

\* the leaderboards the platform serves during this run
FetchedLists ==
  {<<[user_handle |-> "A", user_score |-> 0]>>,
   <<[user_handle |-> "b", user_score |-> 1]>>}

\* user_score: null, as the GeeksForGeeks leaderboard may serve it
NullScore == 0 - 1

FetchedListsOf(platform) ==
  IF platform = GFG
    THEN FetchedLists \cup {<<[user_handle |-> "b", user_score |-> NullScore]>>}
    ELSE FetchedLists

\* what one request of a leaderboard page ends with: rows, no rows, a body
\* that is not JSON, or a status that request() turns into RateLimitError or
\* ScraperError (tenacity.RetryError leaves the loop as ScraperError does)
LeaderboardResponses(platform) ==
  {[kind |-> k, entries |-> <<>>] : k \in {"empty", "JSONDecodeError", "429", "500"}}
    \cup {[kind |-> "results", entries |-> es] : es \in FetchedListsOf(platform)}

\* `except (ClientError, json.JSONDecodeError)` around the request of a page:
\* what does not raise, and the exceptions the clause takes
CaughtInLoop(kind) ==
  kind \in {"results", "empty"} \/ Classified(kind) \in {"ClientError", "JSONDecodeError"}

\* the save of db_cache_entries_to_save in its try block; the list is emptied
\* after the call, so it is kept when the call raises
SavedAndKept(k, st, wanted, ok) ==
  IF wanted /\ k.db_cache_entries_to_save # {}
    THEN [call |-> [k EXCEPT !.writes = @ + 1,
                             !.save_errors = IF ok THEN @ ELSE @ + 1],
          store |-> IF ok THEN save_cache_entries(st, k.db_cache_entries_to_save)
                    ELSE st]
    ELSE [call |-> k, store |-> st]

Saved(k, st, wanted, ok) ==
  IF wanted /\ k.db_cache_entries_to_save # {}
    THEN [call |-> [k EXCEPT !.writes = @ + 1,
                             !.save_errors = IF ok THEN @ ELSE @ + 1,
                             !.db_cache_entries_to_save = IF ok THEN {} ELSE @],
          store |-> IF ok THEN save_cache_entries(st, k.db_cache_entries_to_save)
                    ELSE st]
    ELSE [call |-> k, store |-> st]

FoundNoZero(entries) == FALSE

\* found_zero after the loop over the rows of a page
FoundZero(entries) ==
  \E i \in 1..Len(entries) : entries[i].user_score \in {0, NullScore}

\* the units the loop has still to visit after unit p: GeeksForGeeks skips
\* processed_pages, HackerRank processed_contests and leaderboard_cache
Remaining(k, mem, p) ==
  {u \in k.to_fetch :
     /\ u > p
     /\ u \notin k.processed
     /\ mem.platform = HR => u \notin DOMAIN mem.leaderboard_cache}

\* the loop goes on after unit p: the request of the next unit, or the last
\* save and is_cache_initialized = True
GoOnAfter(k, mem, st, p, ok) ==
  LET rest == Remaining(k, mem, p)
      last == Saved(k, st, TRUE, ok)
  IN IF k.found_zero \/ rest = {}
       THEN /\ init_call' = [last.call EXCEPT !.pc = "returned"]
            /\ memory' = [mem EXCEPT !.is_cache_initialized = TRUE]
            /\ store' = last.store
       ELSE LET next == CHOOSE u \in rest : \A v \in rest : u <= v
            IN /\ init_call' = [k EXCEPT !.pc = "request", !.page = next,
                                         !.all_entries = <<>>,
                                         !.requested = @ \cup {next},
                                         !.asked = @ \cup {next},
                                         !.requests = @ + 1]
               /\ memory' = mem
               /\ store' = st

CacheIsNeverReady(mem, force_refresh) == FALSE

\* the first statement of initialize_cache of both clients
CacheIsReady(mem, force_refresh) == mem.is_cache_initialized /\ ~force_refresh

\* the cache ids whose document in the store is less than a day old
FreshInStore ==
  {doc.cacheId : doc \in {d \in store : /\ d.platform = memory.platform
                                        /\ datetime_now - d.lastUpdated < HoursPerDay}}

\* initialize_cache up to its first request or to its return; fresh, before
\* and requested record the store and the memory as the call found them and
\* the units this client has requested so far
initialize_cache ==
  \E force_refresh \in BOOLEAN, contest_urls \in SUBSET Units, read_ok \in BOOLEAN :
    LET k0 == [NoCall EXCEPT !.calls = init_call.calls + 1,
                             !.force_refresh = force_refresh,
                             !.scope = IF memory.platform = GFG THEN Units
                                       ELSE contest_urls,
                             !.was_initialized = memory.is_cache_initialized,
                             !.requested = init_call.requested,
                             !.fresh = FreshInStore,
                             !.before = memory]
        db_cache_entries == IF read_ok THEN get_platform_cache_entries(memory.platform, TRUE)
                            ELSE {}
        k1 == IF force_refresh THEN k0 ELSE [k0 EXCEPT !.reads = 1]
        loaded_contest_ids == {e.cache_id : e \in db_cache_entries}
        loaded == LoadFromDatabase(memory, db_cache_entries, 0)
        keys == DOMAIN memory.leaderboard_cache
        start_page == IF keys = {} THEN 0
                      ELSE (CHOOSE u \in keys : \A v \in keys : u >= v) + 1
    IN /\ init_call.pc \in {"idle", "returned", "raised"}
       /\ init_call.calls < MaxInitCalls
       /\ memory.platform = GFG => contest_urls = Units
       /\ force_refresh => read_ok
       /\ read' = NoRead /\ lookup' = NoLookup
       /\ UNCHANGED <<datetime_now, orch_vars, client_vars, extra_vars>>
       /\ IF CacheIsReady(memory, force_refresh)
            THEN /\ init_call' = [k0 EXCEPT !.pc = "returned"]
                 /\ UNCHANGED <<memory, store>>
          ELSE IF memory.platform = HR /\ contest_urls = {}
            THEN /\ init_call' = [k0 EXCEPT !.pc = "returned"]
                 /\ UNCHANGED <<memory, store>>
          ELSE IF memory.platform = GFG
            THEN IF ~force_refresh /\ db_cache_entries # {}
                   THEN /\ init_call' = [k1 EXCEPT !.pc = "returned"]
                        /\ memory' = [loaded EXCEPT !.is_cache_initialized = TRUE]
                        /\ UNCHANGED store
                   ELSE GoOnAfter([k1 EXCEPT !.to_fetch = {u \in Units : u >= start_page},
                                             !.processed = keys],
                                  memory, store, 0 - 1, TRUE)
          ELSE IF ~force_refresh /\ db_cache_entries # {}
                 THEN GoOnAfter([k1 EXCEPT !.to_fetch = contest_urls \ loaded_contest_ids],
                                loaded, store, 0 - 1, TRUE)
                 ELSE GoOnAfter([k1 EXCEPT !.to_fetch = contest_urls],
                                memory, store, 0 - 1, TRUE)

\* the answer to the request of a leaderboard page arrives, and the call runs
\* on to its next request or to its end; the sleeps between two requests
\* change nothing.  read holds the page that was answered and the answer.
LeaderboardResponds ==
  \E response \in LeaderboardResponses(memory.platform), progress_ok \in BOOLEAN, save_ok \in BOOLEAN :
    LET k == init_call
        page == k.page
        platform == memory.platform
        all_entries == k.all_entries \o response.entries
        cache_entry == LeaderboardCache(platform, page, all_entries, datetime_now)
        stored == [k EXCEPT !.processed = @ \cup {page},
                            !.db_cache_entries_to_save = @ \cup {cache_entry},
                            !.found_zero = platform = GFG /\ FoundZero(all_entries)]
        progress == Saved(stored, store,
                          Cardinality(stored.db_cache_entries_to_save) >= SaveEvery(platform),
                          progress_ok)
    IN /\ k.pc = "request"
       /\ Len(all_entries) <= MaxRows
       /\ Cardinality(stored.db_cache_entries_to_save) < SaveEvery(platform) => progress_ok
       /\ ~CaughtInLoop(response.kind) => save_ok
       /\ read' = [op |-> "leaderboard", fresh |-> FALSE, found |-> {page},
                   result |-> {response.kind}]
       /\ lookup' = NoLookup
       /\ UNCHANGED <<datetime_now, orch_vars, client_vars, extra_vars>>
       /\ IF ~CaughtInLoop(response.kind)
            THEN /\ init_call' = [k EXCEPT !.pc = "raised",
                                           !.exc = Classified(response.kind)]
                 /\ UNCHANGED <<memory, store>>
          ELSE IF platform = GFG
            THEN IF response.kind = "results"
                   THEN GoOnAfter(progress.call, Remember(memory, page, all_entries),
                                  progress.store, page, save_ok)
                   ELSE GoOnAfter(k, memory, store, page, save_ok)
          ELSE IF response.kind = "results"
                 THEN /\ init_call' = [k EXCEPT !.all_entries = all_entries,
                                                !.requests = @ + 1]
                      /\ UNCHANGED <<memory, store>>
          ELSE IF all_entries # <<>>
                 THEN GoOnAfter(progress.call, Remember(memory, page, all_entries),
                                progress.store, page, save_ok)
                 ELSE GoOnAfter(k, memory, store, page, save_ok)

\* the leaderboards the earlier runs of a client's platform have saved
SavedLists ==
  {<<[user_handle |-> "A", user_score |-> 1]>>,
   <<[user_handle |-> "b", user_score |-> 0]>>}

\* the client is constructed beside a store that earlier runs have filled
CacheInitFor(platform, lists, times) ==
  /\ datetime_now = StartHour
  /\ \E present \in SUBSET Units, es \in [Units -> lists],
        t \in [Units -> times] :
       store = {_cache_entry_to_document(LeaderboardCache(platform, u, es[u], t[u])) :
                  u \in present}
  /\ memory = NewMemory(platform)
  /\ init_call = NoCall
  /\ read = NoRead
  /\ lookup = NoLookup

\* no leaderboard client is in use
CacheIdle ==
  /\ datetime_now = StartHour
  /\ store = {}
  /\ memory = NewMemory(GFG)
  /\ init_call = NoCall
  /\ read = NoRead
  /\ lookup = NoLookup

\* --------------------------------------------------------- CodeChefClient
token_expires == 3000
TokenTick == 500          \* seconds the clock of the token advances at a time
EpochStart == 4000        \* time.time() when the client is constructed
MaxTokenTime == 8000      \* the clock of the token stops here
MaxLookups == 3           \* get_user_info calls made on the one client

\* CodeChefClient.__init__, and what the calls have done so far: asked_token
\* says that the running call has requested a token, began_at when it began,
\* granted_at when the token the client holds was granted (-1: it holds none)
NewCodeChef ==
  [access_token |-> FALSE, token_fetch_time |-> 0, time |-> EpochStart,
   pc |-> "idle", lookups |-> 0, asked_token |-> FALSE, began_at |-> 0,
   granted_at |-> 0 - 1, token_requests |-> 0]

TokenIsStaleAtExpiry(cc) ==
  ~cc.access_token \/ cc.time - cc.token_fetch_time >= token_expires

\* the condition of get_user_info
TokenIsStale(cc) ==
  ~cc.access_token \/ cc.time - cc.token_fetch_time > token_expires

\* get_user_info up to its first request: of a token, or of the user
GetUserInfo ==
  /\ codechef.pc = "idle"
  /\ codechef.lookups < MaxLookups
  /\ codechef' = [codechef EXCEPT
                    !.lookups = @ + 1,
                    !.began_at = codechef.time,
                    !.asked_token = TokenIsStale(codechef),
                    !.token_requests = IF TokenIsStale(codechef) THEN @ + 1 ELSE @,
                    !.pc = IF TokenIsStale(codechef) THEN "token" ELSE "user"]
  /\ UNCHANGED <<calc, gfg, leetcode, orch_vars, client_vars, cache_vars>>

\* the token request of get_access_token ends: with a token, with a body that
\* holds none, or with an exception, which ends get_user_info
TokenResponds ==
  /\ codechef.pc = "token"
  /\ \E answer \in {"token", "None", "raise"} :
       codechef' =
         IF answer = "raise" THEN [codechef EXCEPT !.pc = "idle"]
         ELSE [codechef EXCEPT !.access_token = answer = "token",
                               !.token_fetch_time = codechef.time,
                               !.granted_at = IF answer = "token" THEN codechef.time
                                              ELSE 0 - 1,
                               !.pc = "user"]
  /\ UNCHANGED <<calc, gfg, leetcode, orch_vars, client_vars, cache_vars>>

\* the request of the user ends, and get_user_info with it
UserResponds ==
  /\ codechef.pc = "user"
  /\ codechef' = [codechef EXCEPT !.pc = "idle"]
  /\ UNCHANGED <<calc, gfg, leetcode, orch_vars, client_vars, cache_vars>>

TokenTimePasses ==
  /\ codechef.time < MaxTokenTime
  /\ codechef' = [codechef EXCEPT !.time = @ + TokenTick]
  /\ UNCHANGED <<calc, gfg, leetcode, orch_vars, client_vars, cache_vars>>

\* ------------------------------------------------------------------ ratings
NoCalc == [op |-> "none", args |-> <<>>, value |-> 0]

\* the scores of the GeeksForGeeks ratings; floats of the source that are
\* whole numbers here, and a rating is held in quarters of a point
GfgScores == {0, 40, 80}
Quarters == 4
weekly_weight == 3        \* 0.75, in quarters

\* extract_weekly_contest_score: the loop over the entries, which passes over
\* a score that is None
RECURSIVE extract_weekly_contest_score(_, _)
extract_weekly_contest_score(leaderboard_entries, u) ==
  IF u >= MaxPages THEN 0
  ELSE (IF u \in DOMAIN leaderboard_entries /\ leaderboard_entries[u] # NullScore
          THEN leaderboard_entries[u] ELSE 0)
       + extract_weekly_contest_score(leaderboard_entries, u + 1)

calculate_gfg_rating_even(weekly_rating, practice_rating, weight) ==
  weekly_rating * (Quarters \div 2) + practice_rating * (Quarters \div 2)

\* `x or 0.0` on both ratings, then the weighted sum
calculate_gfg_rating(weekly_rating, practice_rating, weight) ==
  LET weekly == IF weekly_rating = NullScore THEN 0 ELSE weekly_rating
      practice == IF practice_rating = NullScore THEN 0 ELSE practice_rating
  IN weekly * weight + practice * (Quarters - weight)

\* get_user_data and get_participant_data of GeeksForGeeks for a user that
\* exists: the two extracted scores, then the rating of the new status
GfgInputs ==
  UNION {[of : {"calculate_gfg_rating"},
          weekly : [contests -> GfgScores \cup {NullScore}],
          practice : GfgScores] : contests \in SUBSET Units}

GfgRating ==
  /\ calc.op = "none"
  /\ calc.args.of = "calculate_gfg_rating"
  /\ LET weekly_score == extract_weekly_contest_score(calc.args.weekly, 0)
         practice_score == calc.args.practice
     IN calc' = [calc EXCEPT !.op = "calculate_gfg_rating",
                             !.value = calculate_gfg_rating(weekly_score, practice_score,
                                                            weekly_weight)]
  /\ UNCHANGED <<codechef, gfg, leetcode, orch_vars, client_vars, cache_vars>>

\* the statuses a stored participant document can hold for one platform:
\* _document_to_platform_status reads handle, rating and exists as they
\* were stored, and an uploaded sheet stores its rating and exists columns
\* side by side
DocumentStatuses ==
  {PlatformStatus("h", ex, r) : ex \in BOOLEAN, r \in {{}} \cup {{x} : x \in Ratings}}

\* calculate_total_rating: the loop over the platforms; a platform without
\* a status, or with a rating of None, adds nothing
RECURSIVE calculate_total_rating(_, _)
calculate_total_rating(platforms, k) ==
  IF k > Len(PlatformOrder) THEN 0
  ELSE LET platform == PlatformOrder[k]
       IN (IF platform \in DOMAIN platforms /\ platforms[platform].rating # {}
             THEN CHOOSE x \in platforms[platform].rating : TRUE
             ELSE 0)
          + calculate_total_rating(platforms, k + 1)

\* evaluate_batch on one participant read from the database
TotalInputs ==
  UNION {[of : {"calculate_total_rating"},
          platforms : [present -> DocumentStatuses]] : present \in SUBSET Platforms}

TotalRating ==
  /\ calc.op = "none"
  /\ calc.args.of = "calculate_total_rating"
  /\ calc' = [calc EXCEPT !.op = "calculate_total_rating",
                          !.value = calculate_total_rating(calc.args.platforms, 1)]
  /\ UNCHANGED <<codechef, gfg, leetcode, orch_vars, client_vars, cache_vars>>

\* ------------------------------- GeeksForGeeksService and its cache task
\* the coroutines that call client.initialize_cache(): the task __init__
\* creates, and process_batch
Runners == {"task", "batch"}

\* the client as constructed, while the store holds nothing fresh; fetched
\* counts how often a page was fetched and put into leaderboard_cache
NewGfg ==
  [is_cache_initialized |-> FALSE, leaderboard_cache |-> {},
   fetched |-> [u \in Units |-> 0],
   run |-> [r \in Runners |-> [pc |-> "new", page |-> 0, processed_pages |-> {}]]]

\* the loop of initialize_cache of runner r after page p: the request of the
\* next page of range(start_page, max_pages) that is not in processed_pages,
\* or the end of the loop and is_cache_initialized = True
NextPage(g, r, p, stop) ==
  LET mine == g.run[r]
      rest == {u \in Units : u > p /\ u \notin mine.processed_pages}
  IN IF stop \/ rest = {}
       THEN [g EXCEPT !.is_cache_initialized = TRUE, !.run[r].pc = "done"]
       ELSE [g EXCEPT !.run[r].pc = "request",
                      !.run[r].page = CHOOSE u \in rest : \A v \in rest : u <= v]

\* runner r reaches `if not self.client.is_cache_initialized` and calls
\* initialize_cache, which runs to its first request
StartInit(r) ==
  /\ gfg.run[r].pc = "new"
  /\ gfg' = IF gfg.is_cache_initialized THEN [gfg EXCEPT !.run[r].pc = "done"]
            ELSE LET keys == gfg.leaderboard_cache
                     start_page == IF keys = {} THEN 0
                                   ELSE (CHOOSE u \in keys : \A v \in keys : u >= v) + 1
                 IN NextPage([gfg EXCEPT !.run[r].processed_pages = keys],
                             r, start_page - 1, FALSE)
  /\ UNCHANGED <<codechef, calc, leetcode, orch_vars, client_vars, cache_vars>>

\* the request of a page of runner r is answered: with rows, with rows that
\* hold a zero score, with no rows, or with an exception that ends the call
PageResponds(r) ==
  /\ gfg.run[r].pc = "request"
  /\ \E answer \in {"results", "zero", "empty", "raise"} :
       LET page == gfg.run[r].page
           cached == [gfg EXCEPT !.leaderboard_cache = @ \cup {page},
                                 !.fetched[page] = Min(@ + 1, 2),
                                 !.run[r].processed_pages = @ \cup {page}]
       IN gfg' = CASE answer = "raise" -> [gfg EXCEPT !.run[r].pc = "raised"]
                   [] answer = "empty" -> NextPage(gfg, r, page, FALSE)
                   [] OTHER -> NextPage(cached, r, page, answer = "zero")
  /\ UNCHANGED <<codechef, calc, leetcode, orch_vars, client_vars, cache_vars>>

\* ---------------------------------------------------------- LeetCodeClient
\* "#n/a" and two handles; a payload is the rating of userContestRanking
LeetCodeHandles == {"#n/a", "h", "H"}

\* LeetCodeClient.__init__, and the last call of get_user_contest_data: its
\* handle, what it returned or raised, and whether user_cache answered it;
\* fetches counts the calls that went to the network
NewLeetCode ==
  [user_cache |-> <<>>, pc |-> "idle", handle |-> "", result |-> {}, exc |-> "none",
   hit |-> FALSE, calls |-> 0, fetches |-> 0]

never_in_cache(user_cache, handle) == FALSE

\* `if handle in self.user_cache`
in_cache(user_cache, handle) == handle \in DOMAIN user_cache

\* get_user_contest_data up to its return or to its request
GetUserContestData ==
  /\ leetcode.pc = "idle"
  /\ leetcode.calls < MaxLookups
  /\ \E handle \in LeetCodeHandles :
       LET k == [leetcode EXCEPT !.handle = handle, !.calls = @ + 1, !.result = {},
                                 !.exc = "none", !.hit = FALSE]
       IN leetcode' =
            IF handle = "#n/a" THEN k
            ELSE IF in_cache(leetcode.user_cache, handle)
              THEN [k EXCEPT !.result = {leetcode.user_cache[handle]}, !.hit = TRUE]
            ELSE [k EXCEPT !.pc = "request", !.fetches = @ + 1]
  /\ UNCHANGED <<codechef, calc, gfg, orch_vars, client_vars, cache_vars>>

\* the requests of the call end: with a ranking, with a body without a
\* ranking (stored as rating 0), with the error of an unknown user, or with
\* another error or exception
LeetCodeResponds ==
  /\ leetcode.pc = "request"
  /\ \E kind \in {"ranking", "no ranking", "UserNotFoundError", "RateLimitError",
                  "ScraperError"}, rating \in Ratings \ {0} :
       leetcode' =
         IF kind \in {"ranking", "no ranking"}
           THEN LET json_response == IF kind = "no ranking" THEN 0 ELSE rating
                IN [leetcode EXCEPT !.pc = "idle", !.result = {json_response},
                                    !.user_cache = (leetcode.handle :> json_response) @@ @]
           ELSE [leetcode EXCEPT !.pc = "idle", !.exc = kind]
  /\ UNCHANGED <<codechef, calc, gfg, orch_vars, client_vars, cache_vars>>

\* no CodeChef lookup and no computation has been made, and the clients of
\* GeeksForGeeks and LeetCode are as constructed
ExtraIdle ==
  /\ codechef = NewCodeChef
  /\ calc = NoCalc
  /\ gfg = NewGfg
  /\ leetcode = NewLeetCode

\* ---------------------------------------------------------- specification
\* a dispatch of one platform starts from any stored statuses; a dispatch of
\* several platforms starts from participants whose handles are set and whose
\* statuses were not fetched yet.  Only a HackerRank dispatch reads the batches
\* and the contest configuration.
InitFor(pl) ==
  /\ platform_list = pl
  /\ \E st \in [Participants -> StoredStatuses],
        bs \in [Participants -> Batches] :
       /\ pl # {HR} => \A i \in Participants : bs[i] = 2025
       /\ Cardinality(pl) > 1 =>
            \A i \in Participants : st[i] = StoredStatus("h", FALSE)
       /\ participants =
            [i \in Participants |->
               [batch |-> bs[i],
                platforms |-> [p \in Platforms |->
                                 IF p \in pl THEN st[i] ELSE StoredStatus("h", FALSE)]]]
  /\ before = [i \in Participants |-> participants[i].platforms]
  /\ db = before
  /\ contests_config \in [Batches -> BOOLEAN]
  /\ pl # {HR} => \A b \in Batches : ~contests_config[b]
  /\ is_cache_initialized = [p \in Platforms |-> FALSE]
  /\ task = [p \in Platforms |-> NewTask(p \in pl)]
  /\ \E command \in Commands :
       /\ Cardinality(pl) # 1 => command = "multi_scrape"
       /\ dispatch = [command |-> command, pc |-> "gather", pos |-> 1,
                      persisted |-> {}, storage_error |-> FALSE, raised |-> FALSE,
                      closed |-> {}]

Init ==
  /\ \E pl \in SUBSET Platforms :
       /\ Cardinality(pl) \in 1..MaxPlatforms
       /\ InitFor(pl)
  /\ ClientInitFor(2)
  /\ CacheIdle
  /\ ExtraIdle

Next ==
  \/ \E p \in Platforms :
       \/ StartTask(p)
       \/ InitializeCache(p)
       \/ BeginParticipant(p)
       \/ ClientResponds(p)
       \/ CoolDownEnds(p)
       \/ EndLoop(p)
  \/ ScoresRespond
  \/ NextGroup
  \/ GroupScoresRespond
  \/ GroupLoop
  \/ GroupVerifyRespond
  \/ GroupCoolDownEnds
  \/ Gather
  \/ ProcessResult
  \/ CloseServices
  \/ PipelineExcept

Spec == Init /\ [][Next]_vars

\* one client instance used by NumCallers coroutines; no dispatch is running
ClientInit ==
  /\ InitFor({})
  /\ \E rate \in ConstructorRates : ClientInitFor(rate)
  /\ CacheIdle
  /\ ExtraIdle

ClientNext ==
  \/ \E c \in Callers :
       \/ Request(c)
       \/ SlotGranted(c)
       \/ HttpResponds(c)
       \/ BackoffEnds(c)
       \/ CallEnds(c)
  \/ Tick

ClientSpec == ClientInit /\ [][ClientNext]_vars

\* one leaderboard client and the cache collection; no dispatch is running
CacheInit ==
  /\ InitFor({})
  /\ ClientInitFor(2)
  /\ \E platform \in CachePlatforms :
       CacheInitFor(platform, SavedLists, {StartHour - 25, StartHour - 23})
  /\ ExtraIdle

CacheNext ==
  \/ initialize_cache
  \/ LeaderboardResponds
  \/ Lookup
  \/ GetUserScores
  \/ HourPasses

CacheSpec == CacheInit /\ [][CacheNext]_vars

\* the repository alone, used by several runs of the tracker
RepositoryNext ==
  \/ GetCacheEntry
  \/ GetPlatformCacheEntries
  \/ SaveCacheEntries
  \/ HourPasses

RepositoryInit ==
  /\ InitFor({})
  /\ ClientInitFor(2)
  /\ CacheInitFor(GFG, EntryLists, StoredTimes)
  /\ ExtraIdle

RepositorySpec == RepositoryInit /\ [][RepositoryNext]_vars

\* one CodeChefClient and its lookups, which CodeChefService makes in turn
TokenInit ==
  /\ InitFor({})
  /\ ClientInitFor(2)
  /\ CacheIdle
  /\ ExtraIdle

TokenNext ==
  \/ GetUserInfo
  \/ TokenResponds
  \/ UserResponds
  \/ TokenTimePasses

TokenSpec == TokenInit /\ [][TokenNext]_vars

\* the computations of ratings, on every input of the bounds
CalcNext ==
  \/ GfgRating
  \/ TotalRating

\* a computation starts from the inputs it is given
CalcInit ==
  /\ InitFor({})
  /\ ClientInitFor(2)
  /\ CacheIdle
  /\ codechef = NewCodeChef
  /\ gfg = NewGfg
  /\ leetcode = NewLeetCode
  /\ calc \in {[NoCalc EXCEPT !.args = a] : a \in GfgInputs \cup TotalInputs}

CalcSpec == CalcInit /\ [][CalcNext]_vars

\* the two coroutines that initialize the cache of one GeeksForGeeks client
StartupNext == \E r \in Runners : StartInit(r) \/ PageResponds(r)

StartupSpec == TokenInit /\ [][StartupNext]_vars

\* the lookups of one LeetCodeClient, which LeetCodeService makes in turn
LeetCodeNext == GetUserContestData \/ LeetCodeResponds

LeetCodeSpec == TokenInit /\ [][LeetCodeNext]_vars

\* ------------------------------------------------------------- properties
Ended(p) == task[p].pc \in {"returned", "raised"}

\* the participant the individual loop of p has just left, when it was taken
\* with no earlier entry in the results
JustLeft(p) ==
  task[p].pc = "loop" /\ task[p].cur # 0 /\ task[p].prior = 0

TaskStep(p) ==
  \/ StartTask(p) \/ InitializeCache(p) \/ BeginParticipant(p)
  \/ ClientResponds(p) \/ CoolDownEnds(p) \/ EndLoop(p)
  \/ (p = HR /\ (ScoresRespond \/ NextGroup \/ GroupScoresRespond \/ GroupLoop
                 \/ GroupVerifyRespond \/ GroupCoolDownEnds))

\* C1: a rate-limited participant is retried exactly once after one 60 s
\* cool-down: no participant is fetched more than twice or cooled down for more
\* than once.
C1_RetriedExactlyOnce ==
  \A p \in Platforms : task[p].attempts <= 2 /\ task[p].cooldowns <= 1

\* C2: process_batch ends by returning its list even when every request for its
\* participants was answered with HTTP 429: it never ends by raising then.
C2_ReturnsWhenAlwaysRateLimited ==
  \A p \in Platforms : (task[p].all429 /\ task[p].cur # 0) => task[p].pc # "raised"

\* C3: a ScraperError of the client call for one participant never makes
\* process_batch raise.
C3_ScraperErrorIsCaught ==
  \A p \in Platforms :
    ~(task[p].pc = "raised" /\ task[p].cur # 0 /\ task[p].exc = "ScraperError")

\* C4: when the last answer for a participant was a rate limit or another HTTP
\* failure, the participant's status for the platform is the one it had before
\* the batch.
C4_FailedAttemptKeepsStatus ==
  \A p \in Platforms :
    (JustLeft(p) /\ task[p].last \in {"ratelimit", "error"}) =>
      participants[task[p].cur].platforms[p] = before[task[p].cur][p]

C6_NotFoundIsNotRefetched ==
  \A p \in platform_list, i \in Participants :
    ~before[i][p].exists =>
      /\ i \notin task[p].contacted
      /\ participants[i].platforms[p] = before[i][p]

C8_NoDuplicateInResults ==
  \A p \in Platforms, i \in Participants : Count(i, task[p].results) <= 1

\* C9: gather waits for every orchestrator whether or not another one raised,
\* an orchestrator that has not ended can always take its next step, every
\* returned list is written to the store, and process_results raises only when
\* the store does.
C9_FailureIsolation ==
  /\ dispatch.pc # "gather" => \A p \in platform_list : Ended(p)
  /\ dispatch.pc = "gather" =>
       \A p \in platform_list : ~Ended(p) => ENABLED TaskStep(p)
  /\ dispatch.raised => dispatch.storage_error
  /\ (dispatch.pc = "closed" /\ ~dispatch.storage_error) =>
       /\ dispatch.persisted = {p \in platform_list : task[p].pc = "returned"}
       /\ \A p \in dispatch.persisted :
            \A k \in 1..Len(task[p].results) :
              db[task[p].results[k]] = participants[task[p].results[k]].platforms

C9_Witness ==
  /\ dispatch.pc = "closed" /\ ~dispatch.raised
  /\ \E p, q \in platform_list :
       /\ task[p].pc = "raised"
       /\ task[q].pc = "returned" /\ q \in dispatch.persisted
       /\ task[q].results # <<>>
       /\ db[task[q].results[1]][q] # before[task[q].results[1]][q]

\* C10: after the dispatch the stored status for a platform whose process_batch
\* raised is, for every participant, the one stored before the dispatch.
C10_RaisedPlatformNotPersisted ==
  dispatch.pc = "closed" =>
    \A p \in platform_list :
      task[p].pc = "raised" => \A i \in Participants : db[i][p] = before[i][p]

\* ------------------------------------------------- a stalled platform task
\* the platform whose network calls and sleeps may never resolve: the first
\* one of the dispatch
StalledPlatform == Tasks[1]

\* the event loop resumes every task that is ready; the calls and sleeps of
\* every platform but the stalled one resolve
LiveSpec ==
  /\ Spec
  /\ \A p \in Platforms : WF_vars(TaskStep(p) /\ p # StalledPlatform)

\* C11: whatever the first platform of the dispatch does, be it suspended for
\* ever at a network call or a cool-down, the process_batch of every other
\* dispatched platform ends.
C11_SiblingsComplete ==
  \A q \in Platforms :
    <>(q \in platform_list /\ q # StalledPlatform => Ended(q))

C11_Witness ==
  /\ dispatch.pc = "gather"
  /\ task[StalledPlatform].pc \in {"fetch", "cool"}
  /\ \E q \in platform_list \ {StalledPlatform} :
       task[q].pc = "returned" /\ task[q].results # <<>>

\* ------------------------------------------------ properties of request()
\* core/exceptions.py: the classes derived from ScraperError
IsScraperError(e) ==
  e \in {"ScraperError", "RateLimitError", "AuthenticationError", "UserNotFoundError"}

\* C12: two consecutive slots the governor grants on one instance are at least
\* the interval apart that the later one was computed with.
C12_SlotsAreSpaced ==
  grants.count >= 2 => grants.last - grants.prev >= grants.need

\* C13: in per-minute mode the governor lets a caller sleep until 60/rate
\* seconds after the last granted slot.
C13_MinuteSpacing ==
  \A c \in Callers :
    (call[c].pc = "sleeping" /\ call[c].profile.by_minute) =>
      call[c].wake - call[c].seen_last =
        (60 * TicksPerSecond) \div call[c].profile.rate

C15_FailuresAreRetried ==
  \A c \in Callers :
    (call[c].pc = "raised" /\ call[c].exc # "RateLimitError") =>
      call[c].attempt = stop_after_attempt

\* C16: a request() call whose attempts have all failed ends with a
\* ScraperError.
C16_ExhaustedIsScraperError ==
  \A c \in Callers :
    (call[c].pc = "raised" /\ call[c].attempt = stop_after_attempt) =>
      IsScraperError(call[c].exc)

\* ------------------------------------------ properties of the leaderboard cache
Age(t) == datetime_now - t

\* C17: a freshness-checked read of the repository returns no entry that is a
\* day old or older, and it returns every document of its query that is less
\* than a day old, with the id, the rows and the time it was saved with.
C17_FreshReadsAreFresh ==
  (read.op \in {"get_cache_entry", "get_platform_cache_entries"} /\ read.fresh) =>
    /\ \A e \in read.result : Age(e.last_updated) < HoursPerDay
    /\ \A e \in read.result :
         \E doc \in read.found :
           /\ e.cache_id = doc.cacheId
           /\ e.entries = doc.entries
           /\ e.last_updated = doc.lastUpdated
    /\ \A doc \in read.found :
         Age(doc.lastUpdated) < HoursPerDay =>
           \E e \in read.result :
             /\ e.cache_id = doc.cacheId
             /\ e.entries = doc.entries
             /\ e.last_updated = doc.lastUpdated

C17_Witness ==
  /\ read.op = "get_platform_cache_entries" /\ read.fresh
  /\ \E doc \in read.found : Age(doc.lastUpdated) = 25
  /\ \E e \in read.result : Age(e.last_updated) = 1

\* C18: a lookup by handle returns, for every contest the in-memory index
\* holds for the handle, the handle's row of the persisted entry when that
\* entry is read and is less than a day old, and the in-memory row when the
\* entry is missing, a day old or unreadable; a contest whose fresh persisted
\* entry has no row of the handle is left out, and no other key is returned.
C18_LookupPrefersFreshStore ==
  (lookup.handle # "" /\ memory.is_cache_initialized) =>
    LET handle == lower(lookup.handle)
        keys == {u \in Units : <<handle, u>> \in DOMAIN memory.user_cache}
        fresh(u) == {doc \in store : /\ doc.platform = memory.platform
                                     /\ doc.cacheId = u
                                     /\ u \notin lookup.failing
                                     /\ Age(doc.lastUpdated) < HoursPerDay}
        at(doc) == {i \in 1..Len(doc.entries) :
                      lower(doc.entries[i].user_handle) = handle}
        has(u, row) == /\ u \in DOMAIN lookup.result
                       /\ lookup.result[u] = Returned(memory.platform, row)
    IN /\ DOMAIN lookup.result \subseteq keys
       /\ \A u \in keys :
            IF fresh(u) = {} THEN has(u, memory.user_cache[<<handle, u>>])
            ELSE \A doc \in fresh(u) :
                   IF at(doc) = {} THEN u \notin DOMAIN lookup.result
                   ELSE has(u, doc.entries[CHOOSE i \in at(doc) : \A j \in at(doc) : i <= j])

C18_Witness ==
  /\ lookup.handle # "" /\ memory.is_cache_initialized
  /\ \E u \in DOMAIN lookup.result, doc \in store :
       LET mine == memory.user_cache[<<lower(lookup.handle), u>>]
       IN /\ doc.platform = memory.platform
          /\ doc.cacheId = u
          /\ Age(doc.lastUpdated) < HoursPerDay
          /\ lower(doc.entries[1].user_handle) = lower(lookup.handle)
          /\ doc.entries[1] # mine
          /\ lookup.result[u] = Returned(memory.platform, doc.entries[1])
          /\ lookup.result[u] # Returned(memory.platform, mine)

\* C19: an initialize_cache call that is not forced and finds the cache
\* initialized returns without a request to the platform, without a read or a
\* write of the store and with the in-memory cache as it found it; and every
\* call that returns after a read of the store or a request has left the
\* cache initialized.
C19_InitializeIsIdempotent ==
  init_call.pc = "returned" =>
    /\ (init_call.was_initialized /\ ~init_call.force_refresh) =>
         /\ init_call.requests = 0
         /\ init_call.reads = 0
         /\ init_call.writes = 0
         /\ memory = init_call.before
    /\ (init_call.reads > 0 \/ init_call.requests > 0) => memory.is_cache_initialized

C19_Witness ==
  /\ init_call.pc = "returned"
  /\ init_call.calls = 2
  /\ init_call.was_initialized /\ ~init_call.force_refresh
  /\ init_call.requested # {}
  /\ \E u \in init_call.scope : u \notin init_call.fresh

\* the units an initialization has to cover: the contests of the call for
\* HackerRank, and for GeeksForGeeks the pages up to the first one whose rows,
\* as the client holds them, show a score of zero
ScopeUnits ==
  IF memory.platform = HR THEN init_call.scope
  ELSE LET stops(v) ==
             /\ v \in DOMAIN memory.leaderboard_cache
             /\ \E i \in 1..Len(memory.leaderboard_cache[v]) :
                  memory.leaderboard_cache[v][i].user_score = 0
       IN {u \in Units : \A v \in Units : v < u => ~stops(v)}

\* C20: when an initialize_cache call that is not forced has initialized the
\* cache, every unit of its scope that had no fresh document in the store when
\* the call began has been requested from the platform.
C20_MissingUnitsAreRequested ==
  (init_call.pc = "returned" /\ ~init_call.force_refresh
     /\ ~init_call.was_initialized /\ memory.is_cache_initialized) =>
    \A u \in ScopeUnits : u \notin init_call.fresh => u \in init_call.requested

\* C21: an HTTP 429 on a page or a contest does not end initialize_cache: the
\* call never raises the RateLimitError that request() makes of the 429.
C21_RateLimitIsNotFatal ==
  init_call.pc = "raised" => init_call.exc # "RateLimitError"

\* C22: a GeeksForGeeks initialization requests its pages in increasing order
\* without a gap, and once a page it has fetched holds a row whose score is
\* zero or null, that page is cached, the call ends and it has requested no
\* page with a higher number.
C22_StopsAtZeroScore ==
  (memory.platform = GFG /\ init_call.asked # {}) =>
    /\ init_call.asked = {u \in init_call.to_fetch : u <= init_call.page}
    /\ \A v \in init_call.asked :
         (v \in DOMAIN memory.leaderboard_cache
            /\ \E i \in 1..Len(memory.leaderboard_cache[v]) :
                 memory.leaderboard_cache[v][i].user_score \in {0, NullScore}) =>
           /\ init_call.pc = "returned"
           /\ init_call.page = v
           /\ \A u \in init_call.asked : u <= v

C22_Witness ==
  /\ memory.platform = GFG
  /\ init_call.pc = "returned"
  /\ init_call.asked = {0}
  /\ 1 \in init_call.to_fetch
  /\ memory.leaderboard_cache[0][1].user_score = NullScore

\* --------------------------------------------------- properties of the ratings
\* C23: the rating of an existing GeeksForGeeks user is 0.75 times the sum of
\* the user's weekly contest scores plus 0.25 times the practice score; a
\* weekly score of 80 and a practice score of 40 give 70.
C23_WeightedRating ==
  calc.op = "calculate_gfg_rating" =>
    LET weekly_data == calc.args.weekly
        scored == {u \in DOMAIN weekly_data : weekly_data[u] # NullScore}
        weekly == SumOver(weekly_data, scored)
    IN /\ 100 * calc.value = 75 * Quarters * weekly + 25 * Quarters * calc.args.practice
       /\ (weekly = 80 /\ calc.args.practice = 40) => calc.value = 70 * Quarters

C23_Witness ==
  /\ calc.op = "calculate_gfg_rating"
  /\ DOMAIN calc.args.weekly = {0, 1}
  /\ calc.args.weekly[0] = 40 /\ calc.args.weekly[1] = 40
  /\ calc.args.practice = 40
  /\ calc.value = 70 * Quarters

\* C25: a status whose exists is false adds nothing to the total rating of
\* its participant, whatever its rating field holds: the total is the sum
\* of the ratings of the statuses that exist
C25_AbsentStatusCountsZero ==
  calc.op = "calculate_total_rating" =>
    LET platforms == calc.args.platforms
        counted == {p \in DOMAIN platforms :
                      platforms[p].exists /\ platforms[p].rating # {}}
        rating_of == [p \in counted |-> CHOOSE x \in platforms[p].rating : TRUE]
    IN calc.value = SumOver(rating_of, counted)

\* C29: get_user_info requests a token if and only if the client holds no
\* token or the token it holds was granted more than 3000 seconds before;
\* otherwise it goes straight to the request of the user with the token it
\* holds, and the count of token requests stays as it was
C29_TokenIsRequestedLazily ==
  [][(codechef.pc = "idle" /\ codechef'.pc # "idle") =>
       LET expired == \/ codechef.granted_at < 0
                      \/ codechef.time - codechef.granted_at > 3000
       IN /\ expired => /\ codechef'.pc = "token"
                        /\ codechef'.token_requests = codechef.token_requests + 1
          /\ ~expired => /\ codechef'.pc = "user"
                         /\ codechef'.token_requests = codechef.token_requests
                         /\ codechef'.access_token = codechef.access_token]_vars

\* a later lookup, made after the clock moved but within the 3000 seconds,
\* that went on with the token of an earlier one
C29_Witness ==
  /\ codechef.pc = "user"
  /\ ~codechef.asked_token
  /\ codechef.lookups >= 2
  /\ codechef.granted_at >= 0
  /\ codechef.began_at > codechef.granted_at
  /\ codechef.token_requests = 1

\* C26: an attempt of request() made with the bypass flag set, in the call or
\* on the instance, goes to its HTTP call without a sleep of the governor
\* whatever the time since the last request, and leaves the last granted
\* time as it was
C26_BypassNeverWaits ==
  [][\A c \in Callers :
       (/\ call'[c].attempt = call[c].attempt + 1
        /\ call'[c].profile.bypass \/ client.bypass_rate_limit) =>
         /\ call'[c].pc = "http"
         /\ client'.last_request_time = client.last_request_time
         /\ grants' = grants]_vars

\* a call that passed bypass_rate_limit=True is at its HTTP call less than
\* the interval after the slot the governor had granted before
C26_Witness ==
  \E c \in Callers :
    /\ call[c].pc = "http"
    /\ call[c].profile.bypass
    /\ call[c].attempt = 1
    /\ grants.count >= 1
    /\ client.last_request_time = grants.last
    /\ now - client.last_request_time < interval(client.rate_limit)

\* C27: at most one coroutine at a time is between the governor's check and
\* the end of the HTTP call of request() on one client instance
C27_OneCallerInRequest ==
  Cardinality({c \in Callers : call[c].pc \in {"sleeping", "http"}}) <= 1

\* C28: issuing requests changes neither the configured rate, nor the rate
\* mode, nor the bypass flag of the instance
C28_OverridesArePerCall ==
  /\ client.rate_limit \in ConstructorRates
  /\ ~client.rate_limit_by_minute
  /\ ~client.bypass_rate_limit

\* C30: a call of initialize_cache with force_refresh=True that has returned
\* has requested every page or contest of its scope that the memory of the
\* client held when the call began
C30_ForcedInitRefetches ==
  (init_call.pc = "returned" /\ init_call.force_refresh) =>
    \A u \in DOMAIN init_call.before.leaderboard_cache \cap init_call.scope :
      u \in init_call.asked

\* C24: the score get_user_scores returns for a handle is the sum, over the
\* contests of contest_urls, of the handle's score in the contest, each
\* contest counted once, whoever else is in the call
C24_ScoreIsSumOverContests ==
  lookup.handles # {} =>
    \A h \in lookup.handles :
      LET handle == lower(h)
          fresh(u) == {doc \in store : /\ doc.platform = HR
                                       /\ doc.cacheId = u
                                       /\ Age(doc.lastUpdated) < HoursPerDay}
          rows(u) == IF fresh(u) # {} THEN (CHOOSE doc \in fresh(u) : TRUE).entries
                     ELSE memory.leaderboard_cache[u]
          mine(u) == {i \in 1..Len(rows(u)) : lower(rows(u)[i].user_handle) = handle}
          score(u) == SumOver([i \in mine(u) |-> rows(u)[i].user_score], mine(u))
      IN lookup.result[handle] =
           SumOver([u \in lookup.contest_urls |-> score(u)], lookup.contest_urls)

\* C32: a call of save_cache_entries by the client of one platform leaves
\* every document of the other platform as it was, and every document it
\* writes or replaces carries the platform of the entries handed to it
C32_WritesStayInNamespace ==
  read.op = "save_cache_entries" =>
    \A e \in read.result :
      /\ \A doc \in read.found : doc.platform # e.platform => doc \in store
      /\ \A doc \in store \ read.found : doc.platform = e.platform
      /\ \A doc \in read.found \ store : doc.platform = e.platform

\* HackerRank has saved the entry of a cache id under which GeeksForGeeks
\* holds a document, and that document is still there
C32_Witness ==
  /\ read.op = "save_cache_entries"
  /\ \E e \in read.result, mine \in store, other \in store :
       /\ e.platform = HR
       /\ mine = _cache_entry_to_document(e)
       /\ other.platform = GFG
       /\ other.cacheId = e.cache_id
       /\ other \in read.found

\* C31: while no save has failed in a call of initialize_cache, the entries
\* fetched and not yet saved stay below the threshold of the platform: the
\* save is made as soon as the list reaches it, and empties the list
C31_PendingSavesAreBounded ==
  init_call.save_errors = 0 =>
    Cardinality(init_call.db_cache_entries_to_save) < SaveEvery(memory.platform)

\* a progress save: the call is at the request of a further contest, has
\* written what it fetched before, and holds nothing to save
C31_Witness ==
  /\ init_call.pc = "request"
  /\ init_call.save_errors = 0
  /\ init_call.writes >= 1
  /\ init_call.processed # {}
  /\ init_call.db_cache_entries_to_save = {}
  /\ \A u \in init_call.processed :
       \E doc \in store : /\ doc.platform = memory.platform
                           /\ doc.cacheId = u
                           /\ doc.entries = memory.leaderboard_cache[u]

\* C36: in GeeksForGeeks initialize_cache, after a page was answered with an
\* empty list of results no page with a higher number is requested
C36_EmptyPageEndsTheFetch ==
  (read.op = "leaderboard" /\ memory.platform = GFG /\ read.result = {"empty"}) =>
    ~(init_call.pc = "request" /\ \A p \in read.found : init_call.page > p)

\* C37: when initialize_cache has returned or raised, and no save has failed,
\* no fetched entry is left in the list of entries to save
C37_FetchedEntriesAreSaved ==
  (init_call.pc \in {"returned", "raised"} /\ init_call.save_errors = 0) =>
    init_call.db_cache_entries_to_save = {}

\* C38: a HackerRank contest whose pagination was ended by an error is not
\* stored in the leaderboard cache
C38_OnlyCompleteContestsAreCached ==
  (/\ read.op = "leaderboard"
   /\ memory.platform = HR
   /\ read.result \cap {"empty", "results"} = {}) =>
    \A u \in read.found : u \notin DOMAIN memory.leaderboard_cache

\* C35: no leaderboard page is fetched from the network and cached more than
\* once while the cache of the GeeksForGeeks client is being initialized
C35_PagesAreFetchedOnce ==
  \A u \in Units : gfg.fetched[u] <= 1

\* C40: a call of get_user_contest_data for a handle that user_cache holds
\* returns the cached payload, makes no request and leaves the cache as it
\* is; a call that went to the network adds its payload under its handle
\* when it succeeds and leaves the cache unchanged when it raises
C40_CacheAnswersLaterLookups ==
  [][/\ (/\ leetcode'.calls = leetcode.calls + 1
         /\ leetcode'.handle \in DOMAIN leetcode.user_cache) =>
          /\ leetcode'.pc = "idle"
          /\ leetcode'.exc = "none"
          /\ leetcode'.result = {leetcode.user_cache[leetcode'.handle]}
          /\ leetcode'.fetches = leetcode.fetches
          /\ leetcode'.user_cache = leetcode.user_cache
     /\ (leetcode.pc = "request" /\ leetcode'.pc = "idle") =>
          IF leetcode'.exc # "none"
            THEN leetcode'.user_cache = leetcode.user_cache
            ELSE /\ DOMAIN leetcode'.user_cache =
                      DOMAIN leetcode.user_cache \cup {leetcode.handle}
                 /\ leetcode'.result = {leetcode'.user_cache[leetcode.handle]}
                 /\ \A h \in DOMAIN leetcode.user_cache :
                      leetcode'.user_cache[h] = leetcode.user_cache[h]]_vars

\* a third call, for a handle fetched once before, is answered by the cache
\* after a call for the same handle in between has been answered by it too
C40_Witness ==
  /\ leetcode.pc = "idle"
  /\ leetcode.hit
  /\ leetcode.calls = MaxLookups
  /\ leetcode.fetches = 1
  /\ leetcode.result = {leetcode.user_cache[leetcode.handle]}

\* C33: for every platform, no request is issued for a participant whose
\* handle is empty or the sentinel "#n/a": such a participant is never among
\* those the platform's client was asked about over the network
C33_NoRequestForMissingHandle ==
  \A p \in Platforms : \A i \in task[p].contacted :
    handle_of(i, p) \notin {"", "#n/a"}

\* C34: a step that changes a participant's entry platforms[X] is a step of
\* the process_batch of X and of no other platform's, and no step changes a
\* participant's batch: a process_batch writes at most its own platform's entry
C34_BatchWritesOwnPlatformOnly ==
  [][\A i \in Participants :
       /\ participants'[i].batch = participants[i].batch
       /\ \A q \in Platforms :
            participants'[i].platforms[q] # participants[i].platforms[q] =>
              /\ q \in platform_list
              /\ task'[q] # task[q]
              /\ \A p \in Platforms \ {q} :
                   /\ task'[p] = task[p]
                   /\ participants'[i].platforms[p] = participants[i].platforms[p]]_vars

\* two platforms dispatched together have both written their own entry of one
\* participant while one of the two batches is still running
C34_Witness ==
  \E i \in Participants : \E p \in platform_list, q \in platform_list :
    /\ p # q
    /\ participants[i].platforms[p] # before[i][p]
    /\ participants[i].platforms[q] # before[i][q]
    /\ ~Ended(q)
    /\ dispatch.pc = "gather"

\* C39: when the command has returned, on whatever path, the service of every
\* dispatched platform has been closed
C39_ServicesAreClosed ==
  dispatch.pc \in {"closed", "returned"} => dispatch.closed = platform_list

====
